---- MODULE Spec2Model ----
(***************************************************************************)
(* Model of resolve_embed_model (src/utils.py): the dispatch over an       *)
(* embedding specifier, the optional-dependency imports, the environment   *)
(* variables it reads, the cache directory it creates and the binding of   *)
(* the callback manager.  Python strings are sequences of one-character    *)
(* strings, so that ==, startswith and split are computed, not assumed.    *)
(***************************************************************************)
EXTENDS Integers, Sequences, FiniteSets, TLC

\* ------------------------------------------------------------------ bounds
MaxTail == 3
NumCallers == 2

\* ----------------------------------------------------------- Python strings
S_DEFAULT == <<"d", "e", "f", "a", "u", "l", "t">>
S_CLIP == <<"c", "l", "i", "p">>
S_LOCAL == <<"l", "o", "c", "a", "l">>
S_AZURE == <<"a", "z", "u", "r", "e", "-", "o", "p", "e", "n", "a", "i">>
VIT_B_32 == <<"V", "i", "T", "-", "B", "/", "3", "2">>
COLON == ":"
\* Python's None where a str is expected (model_name=None)
NoneName == <<"None">>
NoText == <<>>

StartsWith(s, p) ==
    /\ Len(s) >= Len(p)
    /\ SubSeq(s, 1, Len(p)) = p

HasColon(s) == \E i \in 1..Len(s) : s[i] = COLON

FirstColon(s) == CHOOSE i \in 1..Len(s) : s[i] = COLON /\ \A j \in 1..(i - 1) : s[j] # COLON

\* s.split(":")
RECURSIVE Split(_)
Split(s) ==
    IF HasColon(s)
    THEN <<SubSeq(s, 1, FirstColon(s) - 1)>> \o Split(SubSeq(s, FirstColon(s) + 1, Len(s)))
    ELSE <<s>>

\* mutant: every colon splits, as s.split(":") does
Split1Mut(s) == Split(s)

\* s.split(":", 1)
Split1(s) ==
    IF HasColon(s)
    THEN <<SubSeq(s, 1, FirstColon(s) - 1), SubSeq(s, FirstColon(s) + 1, Len(s))>>
    ELSE <<s>>

\* ------------------------------------------------------------------ values
\* Every Python value the resolver handles has the same record shape.
Value(type, kind, id, s, dim, folder, cm) ==
    [type |-> type, kind |-> kind, id |-> id, s |-> s, dim |-> dim, folder |-> folder, cm |-> cm]

None == Value("none", "NoneType", "-", NoText, 0, "-", "-")
Str(s) == Value("str", "str", "-", s, 0, "-", "-")
Vector == Value("list", "list", "-", NoText, 0, "-", "-")

NoHandle == "None"
DefaultHandle == "Settings.callback_manager"
Handles == {"h1", "h2"}

MockEmbedding(embed_dim) == Value("obj", "MockEmbedding", "new", NoText, embed_dim, "-", "unset")
OpenAIEmbedding == Value("obj", "OpenAIEmbedding", "new", NoText, 0, "-", "unset")
ClipEmbedding(model_name) == Value("obj", "ClipEmbedding", "new", model_name, 0, "-", "unset")
HuggingFaceEmbedding(model_name, cache_folder) ==
    Value("obj", "HuggingFaceEmbedding", "new", model_name, 0, cache_folder, "unset")
LangchainEmbedding(lc) == Value("obj", "LangchainEmbedding", lc.id, NoText, 0, "-", "unset")

\* caller-made instances: a BaseEmbedding subclass, and a langchain Embeddings
CustomProvider(cm) == Value("obj", "BaseEmbedding", "p1", NoText, 0, "-", cm)
ForeignAdapter == Value("obj", "LCEmbeddings", "a1", NoText, 0, "-", "unset")

ProviderKinds ==
    {"MockEmbedding", "OpenAIEmbedding", "ClipEmbedding", "HuggingFaceEmbedding",
     "LangchainEmbedding", "BaseEmbedding"}

IsStr(v) == v.type = "str"
\* mutant: the isinstance test is made against a base class of every object
IsLCEmbeddingsMut(v) == v.type = "obj"

IsLCEmbeddings(v) == v.type = "obj" /\ v.kind = "LCEmbeddings"

\* ------------------------------------------------------------ input domains
RECURSIVE Tails(_)
Tails(n) ==
    IF n = 0 THEN {<<>>}
    ELSE Tails(n - 1) \cup {t \o <<c>> : t \in {u \in Tails(n - 1) : Len(u) = n - 1}, c \in {COLON, "a"}}

Prefixes == {<<>>, S_DEFAULT, S_CLIP, S_LOCAL, S_AZURE, <<"c", "l", "i">>, <<"x">>}

StringSpecifiers == {Str(p \o t) : p \in Prefixes, t \in Tails(MaxTail)}

Specifiers ==
    StringSpecifiers \cup {None, ForeignAdapter}
        \cup {CustomProvider(cm) : cm \in Handles \cup {DefaultHandle}}

HandleArgs == Handles \cup {NoHandle}

\* specifiers used by concurrent callers: the generic string step only
ConcSpecifiers == {Str(S_LOCAL), Str(S_LOCAL \o <<COLON, "a">>), Str(<<"x">>)}

Callers == 1..NumCallers

\* an environment variable: not set, set to "", set to a non-empty string
EnvValues == {"unset", "empty", "set"}

Envs ==
    [IS_TESTING : EnvValues,
     AZURE_OPENAI_API_KEY : {"unset", "set"},
     bridge : BOOLEAN,
     openai : {"missing", "badkey", "ok"},
     clip : BOOLEAN,
     huggingface : BOOLEAN,
     langchain : BOOLEAN]

\* os.getenv(name) used as a condition: unset gives None, "" is falsy
Truthy(v) == v = "set"

\* ------------------------------------------------------------------- state
VARIABLES env, fs, frame

vars == <<env, fs, frame>>

CACHE_ROOT == "cache"
CACHE_MODELS == "cache/models"

NoOutcome == [kind |-> "none", error |-> "-", unit |-> "-", value |-> None]
Return(v) == [kind |-> "return", error |-> "-", unit |-> "-", value |-> v]
Raise(error, unit) == [kind |-> "raise", error |-> error, unit |-> unit, value |-> None]

IdleFrame ==
    [pc |-> "idle", spec |-> None, callback_manager |-> NoHandle, embed_model |-> None,
     LCEmbeddings |-> "unbound", model_name |-> NoneName, calls |-> <<>>,
     outcome |-> NoOutcome, notice |-> FALSE, created |-> {}, eexist |-> {}, reads |-> {},
     re |-> FALSE, prev |-> None, prevHandle |-> NoHandle]

NewFrame(s, cm, re, prev, prevHandle) ==
    [IdleFrame EXCEPT !.pc = "bridge", !.spec = s, !.callback_manager = cm, !.embed_model = s,
                      !.re = re, !.prev = prev, !.prevHandle = prevHandle]

FsStates == {{}, {CACHE_ROOT}, {CACHE_ROOT, CACHE_MODELS}}

Init ==
    /\ env \in Envs
    /\ fs \in {{}, {CACHE_ROOT, CACHE_MODELS}}
    /\ frame = [c \in Callers |-> IdleFrame]

InitConc ==
    /\ env \in {e \in Envs : /\ e.IS_TESTING = "unset" /\ e.AZURE_OPENAI_API_KEY = "unset"
                             /\ e.bridge /\ e.openai = "ok" /\ e.clip /\ e.langchain}
    /\ fs \in FsStates
    /\ frame = [c \in Callers |-> IdleFrame]

\* ----------------------------------------------------------------- helpers
Goto(f, label) == [f EXCEPT !.pc = label]
Finish(f, out) == [f EXCEPT !.pc = "done", !.outcome = out]
Step(c, f) == frame' = [frame EXCEPT ![c] = f]

\* mutant: the supplied handle is ignored
HandleOrMut(cm) == DefaultHandle

\* callback_manager or Settings.callback_manager
HandleOr(cm) == IF cm # NoHandle THEN cm ELSE DefaultHandle

\* embed_model.split(":")[1] if ":" in embed_model else "ViT-B/32"
ClipModelName(s) == IF HasColon(s) THEN Split(s)[2] ELSE VIT_B_32

\* splits[1] if len(splits) > 1 else None
LocalModelName(splits) == IF Len(splits) > 1 THEN splits[2] ELSE NoneName

\* mutant: the prefix test with its operands swapped
IsLocalPrefixMut(splits) == StartsWith(S_LOCAL, splits[1])

\* is_local != "local" fails the call
IsLocalPrefix(splits) == splits[1] = S_LOCAL

\* mutant: the two mock dimensions exchanged
TestingMockMut(cm) == [MockEmbedding(1) EXCEPT !.cm = HandleOr(cm)]

\* MockEmbedding(embed_dim=8), bound and returned at once under IS_TESTING
TestingMock(cm) == [MockEmbedding(8) EXCEPT !.cm = HandleOr(cm)]

\* mutant: the two mock dimensions exchanged
DisabledMockMut == MockEmbedding(8)

\* MockEmbedding(embed_dim=1) when embeddings are disabled
DisabledMock == MockEmbedding(1)

\* mutant: os.makedirs(cache_folder) without exist_ok
ExistOkMut == FALSE

\* the exist_ok argument of os.makedirs
ExistOk == TRUE

\* ----------------------------------------------------------------- actions
\* a call of resolve_embed_model(embed_model, callback_manager)
Call(c, S, H) ==
    /\ frame[c].pc = "idle"
    /\ \E s \in S, cm \in H :
          Step(c, NewFrame(s, cm, FALSE, None, NoHandle))
    /\ UNCHANGED <<env, fs>>

\* a call whose argument is the provider a previous call returned
CallAgain(c) ==
    /\ frame[c].pc = "done"
    /\ frame[c].outcome.kind = "return"
    /\ \E cm \in HandleArgs :
          Step(c, NewFrame(frame[c].outcome.value, cm, TRUE,
                           frame[c].outcome.value, frame[c].callback_manager))
    /\ UNCHANGED <<env, fs>>

\* the caller takes the outcome; nothing of the call is kept
Discard(c) ==
    /\ frame[c].pc = "done"
    /\ Step(c, IdleFrame)
    /\ UNCHANGED <<env, fs>>

\* try: from ...bridge.langchain import Embeddings as LCEmbeddings
ImportBridge(c) ==
    /\ frame[c].pc = "bridge"
    /\ Step(c, [frame[c] EXCEPT !.pc = "default",
                                !.LCEmbeddings = IF env.bridge THEN "class" ELSE "None"])
    /\ UNCHANGED <<env, fs>>

\* if embed_model == "default": ... elif ... startswith("clip"): ...
DefaultOrClip(c) ==
    LET f == frame[c]
        em == f.embed_model
    IN
    /\ f.pc = "default"
    /\ IF IsStr(em) /\ em.s = S_DEFAULT
       THEN LET g == [f EXCEPT !.reads = @ \cup {"IS_TESTING"}] IN
            IF Truthy(env.IS_TESTING)
            THEN Step(c, Finish([g EXCEPT !.calls = Append(@, [TestingMock(f.callback_manager) EXCEPT !.cm = "unset"]),
                                          !.embed_model = TestingMock(f.callback_manager)],
                                Return(TestingMock(f.callback_manager))))
            ELSE IF env.openai = "missing"
            THEN Step(c, Finish(g, Raise("ImportError", "llama-index-embeddings-openai")))
            ELSE IF env.openai = "badkey"
            THEN Step(c, Finish([g EXCEPT !.calls = Append(@, OpenAIEmbedding),
                                          !.embed_model = OpenAIEmbedding],
                                Raise("ValueError", "OPENAI_API_KEY")))
            ELSE Step(c, Goto([g EXCEPT !.calls = Append(@, OpenAIEmbedding),
                                        !.embed_model = OpenAIEmbedding], "string"))
       ELSE IF IsStr(em) /\ StartsWith(em.s, S_CLIP)
       THEN IF ~env.clip
            THEN Step(c, Finish(f, Raise("ImportError", "llama-index-embeddings-clip")))
            ELSE Step(c, Goto([f EXCEPT !.calls = Append(@, ClipEmbedding(ClipModelName(em.s))),
                                        !.embed_model = ClipEmbedding(ClipModelName(em.s))], "string"))
       ELSE Step(c, Goto(f, "string"))
    /\ UNCHANGED <<env, fs>>

\* if isinstance(embed_model, str): import, split, prefix check
StringStep(c) ==
    LET f == frame[c]
        em == f.embed_model
        splits == Split1(em.s)
    IN
    /\ f.pc = "string"
    /\ IF ~IsStr(em)
       THEN Step(c, Goto(f, "adapter"))
       ELSE IF ~env.huggingface
       THEN Step(c, Finish(f, Raise("ImportError", "llama-index-embeddings-huggingface")))
       ELSE IF ~IsLocalPrefix(splits)
       THEN Step(c, Finish([f EXCEPT !.model_name = LocalModelName(splits)],
                           Raise("ValueError", "must start with 'local'")))
       ELSE Step(c, Goto([f EXCEPT !.model_name = LocalModelName(splits)], "makedirs"))
    /\ UNCHANGED <<env, fs>>

\* os.makedirs(cache_folder, exist_ok=True): the parent, when it is missing
MakedirsHead(c) ==
    LET f == frame[c] IN
    /\ f.pc = "makedirs"
    /\ IF CACHE_ROOT \in fs
       THEN /\ Step(c, Goto(f, "mkdir"))
            /\ UNCHANGED fs
       ELSE /\ Step(c, Goto(f, "mkdir_head"))
            /\ UNCHANGED fs
    /\ UNCHANGED env

\* mkdir of the parent; FileExistsError from a racing creator is passed over
MkdirHead(c) ==
    LET f == frame[c] IN
    /\ f.pc = "mkdir_head"
    /\ IF CACHE_ROOT \in fs
       THEN /\ Step(c, Goto([f EXCEPT !.eexist = @ \cup {CACHE_ROOT}], "mkdir"))
            /\ UNCHANGED fs
       ELSE /\ Step(c, Goto([f EXCEPT !.created = @ \cup {CACHE_ROOT}], "mkdir"))
            /\ fs' = fs \cup {CACHE_ROOT}
    /\ UNCHANGED env

\* mkdir of the leaf; OSError is re-raised unless exist_ok and it is a directory
MkdirLeaf(c) ==
    LET f == frame[c] IN
    /\ f.pc = "mkdir"
    /\ IF CACHE_MODELS \in fs
       THEN /\ IF ExistOk
               THEN Step(c, Goto([f EXCEPT !.eexist = @ \cup {CACHE_MODELS}], "construct"))
               ELSE Step(c, Finish(f, Raise("FileExistsError", CACHE_MODELS)))
            /\ UNCHANGED fs
       ELSE /\ Step(c, Goto([f EXCEPT !.created = @ \cup {CACHE_MODELS}], "construct"))
            /\ fs' = fs \cup {CACHE_MODELS}
    /\ UNCHANGED env

\* embed_model = HuggingFaceEmbedding(model_name=..., cache_folder=...)
ConstructLocal(c) ==
    LET f == frame[c]
        hf == HuggingFaceEmbedding(f.model_name, CACHE_MODELS)
    IN
    /\ f.pc = "construct"
    /\ Step(c, Goto([f EXCEPT !.calls = Append(@, hf), !.embed_model = hf], "adapter"))
    /\ UNCHANGED <<env, fs>>

\* if LCEmbeddings is not None and isinstance(embed_model, LCEmbeddings)
AdapterStep(c) ==
    LET f == frame[c]
        em == f.embed_model
    IN
    /\ f.pc = "adapter"
    /\ IF f.LCEmbeddings # "None" /\ IsLCEmbeddings(em)
       THEN IF ~env.langchain
            THEN Step(c, Finish(f, Raise("ImportError", "llama-index-embeddings-langchain")))
            ELSE Step(c, Goto([f EXCEPT !.calls = Append(@, LangchainEmbedding(em)),
                                        !.embed_model = LangchainEmbedding(em)], "azure"))
       ELSE Step(c, Goto(f, "azure"))
    /\ UNCHANGED <<env, fs>>

\* if isinstance(embed_model, str) and embed_model.startswith("azure-openai")
AzureStep(c) ==
    LET f == frame[c]
        em == f.embed_model
    IN
    /\ f.pc = "azure"
    /\ IF IsStr(em) /\ StartsWith(em.s, S_AZURE)
       THEN IF Len(Split(em.s)) # 4
            THEN Step(c, Finish(f, Raise("ValueError", "azure-openai form")))
            ELSE LET g == [f EXCEPT !.reads = @ \cup {"AZURE_OPENAI_API_KEY"}] IN
                 IF ~Truthy(env.AZURE_OPENAI_API_KEY)
                 THEN Step(c, Finish(g, Raise("ValueError", "AZURE_OPENAI_API_KEY")))
                 ELSE Step(c, Goto([g EXCEPT !.calls = Append(@, Value("obj", "AzureOpenAIMultiModal", "new", Split(em.s)[3], 0, "-", "unset")),
                                             !.embed_model = Vector], "disable"))
       ELSE Step(c, Goto(f, "disable"))
    /\ UNCHANGED <<env, fs>>

\* if embed_model is None: print(...); embed_model = MockEmbedding(embed_dim=1)
DisableStep(c) ==
    LET f == frame[c] IN
    /\ f.pc = "disable"
    /\ IF f.embed_model = None
       THEN Step(c, Goto([f EXCEPT !.notice = TRUE, !.calls = Append(@, DisabledMock),
                                   !.embed_model = DisabledMock], "bind"))
       ELSE Step(c, Goto(f, "bind"))
    /\ UNCHANGED <<env, fs>>

\* embed_model.callback_manager = callback_manager or Settings.callback_manager
\* return embed_model          (a str or a list takes no attribute)
Bind(c) ==
    LET f == frame[c]
        bound == [f.embed_model EXCEPT !.cm = HandleOr(f.callback_manager)]
    IN
    /\ f.pc = "bind"
    /\ IF f.embed_model.type = "obj"
       THEN Step(c, Finish([f EXCEPT !.embed_model = bound], Return(bound)))
       ELSE Step(c, Finish(f, Raise("AttributeError", "callback_manager")))
    /\ UNCHANGED <<env, fs>>

Resolve(c) ==
    \/ ImportBridge(c)
    \/ DefaultOrClip(c)
    \/ StringStep(c)
    \/ MakedirsHead(c)
    \/ MkdirHead(c)
    \/ MkdirLeaf(c)
    \/ ConstructLocal(c)
    \/ AdapterStep(c)
    \/ AzureStep(c)
    \/ DisableStep(c)
    \/ Bind(c)

\* one caller at a time: the resolver is synchronous
Next ==
    \/ Call(1, Specifiers, HandleArgs)
    \/ CallAgain(1)
    \/ Discard(1)
    \/ Resolve(1)

Spec == Init /\ [][Next]_vars

\* several threads resolving local specifiers against one cache directory
NextConc ==
    \E c \in Callers :
        \/ Call(c, ConcSpecifiers, {NoHandle})
        \/ Discard(c)
        \/ Resolve(c)

SpecConc == InitConc /\ [][NextConc]_vars

\* ================================================================== claims
Done(c) == frame[c].pc = "done"
Returned(c) == Done(c) /\ frame[c].outcome.kind = "return"
Raised(c, error, unit) == Done(c) /\ frame[c].outcome = Raise(error, unit)

\* the handle a returned provider must carry
ExpectedHandle(c) ==
    IF frame[c].callback_manager = NoHandle THEN DefaultHandle ELSE frame[c].callback_manager

\* the error classes of the specification, as the exceptions that carry them
MissingDependency(c, unit) == Raised(c, "ImportError", unit)
InvalidSpecifier(c) ==
    \/ Raised(c, "ValueError", "must start with 'local'")
    \/ Raised(c, "ValueError", "azure-openai form")

SpecIsString(c) == frame[c].spec.type = "str"
SpecIsDefault(c) == SpecIsString(c) /\ frame[c].spec.s = S_DEFAULT
SpecHasPrefix(c, p) ==
    /\ SpecIsString(c)
    /\ Len(frame[c].spec.s) >= Len(p)
    /\ \A i \in 1..Len(p) : frame[c].spec.s[i] = p[i]
SpecIsProvider(c) == frame[c].spec.type = "obj" /\ frame[c].spec.kind \in ProviderKinds
SpecIsAdapter(c) == frame[c].spec.type = "obj" /\ frame[c].spec.kind = "LCEmbeddings"
\* "local" or "local:<anything>"
SpecIsLocal(c) ==
    /\ SpecHasPrefix(c, S_LOCAL)
    /\ Len(frame[c].spec.s) > Len(S_LOCAL) => frame[c].spec.s[Len(S_LOCAL) + 1] = COLON
\* number of colon-delimited fields of the specifier
SpecFields(c) == Cardinality({i \in 1..Len(frame[c].spec.s) : frame[c].spec.s[i] = COLON}) + 1
TestingActive == env.IS_TESTING = "set"

\* C1: whenever resolve_embed_model returns, the value is a Provider object
\* (a BaseEmbedding), never a vector or a string, and its callback manager is
\* the supplied handle, or the default one when none was supplied.
C1_ReturnsBoundProvider ==
    \A c \in Callers :
        Returned(c) =>
            /\ frame[c].outcome.value.type = "obj"
            /\ frame[c].outcome.value.kind \in ProviderKinds
            /\ frame[c].outcome.value.cm = ExpectedHandle(c)

\* a string with no recognized prefix
SpecUnrecognized(c) ==
    /\ SpecIsString(c)
    /\ ~SpecIsDefault(c)
    /\ ~SpecHasPrefix(c, S_CLIP)
    /\ ~SpecHasPrefix(c, S_LOCAL)
    /\ ~SpecHasPrefix(c, S_AZURE)

\* C2 as stated: a specifier with no recognized prefix that is no provider
\* and no adapter fails with InvalidSpecifier in every environment.
C2_UnrecognizedIsInvalid ==
    \A c \in Callers :
        (Done(c) /\ SpecUnrecognized(c)) => InvalidSpecifier(c)

\* C2 amended: such a specifier fails with InvalidSpecifier when the
\* local-model package is installed, and with MissingDependency naming that
\* package when it is not; it never returns.
C2_UnrecognizedFails ==
    \A c \in Callers :
        (Done(c) /\ SpecUnrecognized(c)) =>
            IF env.huggingface
            THEN Raised(c, "ValueError", "must start with 'local'")
            ELSE MissingDependency(c, "llama-index-embeddings-huggingface")

C2_Witness ==
    /\ Done(1)
    /\ frame[1].spec = Str(<<"x", COLON, "a">>)
    /\ env.huggingface
    /\ InvalidSpecifier(1)

\* C3: "azure-openai:a:b" (3 fields) fails with InvalidSpecifier, and
\* "azure-openai:a:b:c" (4 fields) reaches the credential lookup: the
\* variable AZURE_OPENAI_API_KEY is read and its absence fails the call
\* (stated for the environments that have the local-model package, where no
\* import can fail before the field count is looked at).
C3_AzureFieldCount ==
    \A c \in Callers :
        (Done(c) /\ SpecHasPrefix(c, S_AZURE) /\ env.huggingface) =>
            /\ SpecFields(c) = 3 => InvalidSpecifier(c)
            /\ SpecFields(c) = 4 =>
                  /\ "AZURE_OPENAI_API_KEY" \in frame[c].reads
                  /\ env.AZURE_OPENAI_API_KEY = "unset" =>
                        Raised(c, "ValueError", "AZURE_OPENAI_API_KEY")

\* C4: a specifier of a family whose package is not installed fails with
\* MissingDependency naming that family's package, and nothing else happens
\* (the default sentinel counts as the hosted family when IS_TESTING is off).
C4_MissingDependencyPerFamily ==
    \A c \in Callers :
        Done(c) =>
            /\ (SpecIsLocal(c) /\ ~env.huggingface) =>
                  MissingDependency(c, "llama-index-embeddings-huggingface")
            /\ (SpecHasPrefix(c, S_CLIP) /\ ~env.clip) =>
                  MissingDependency(c, "llama-index-embeddings-clip")
            /\ (SpecIsAdapter(c) /\ ~env.langchain) =>
                  MissingDependency(c, "llama-index-embeddings-langchain")
            /\ (SpecIsDefault(c) /\ ~TestingActive /\ env.openai = "missing") =>
                  MissingDependency(c, "llama-index-embeddings-openai")

\* C5: the default sentinel under an active IS_TESTING returns a mock
\* provider of dimension 8 whatever else the environment holds; only the
\* mock constructor runs and nothing is raised.
C5_DefaultUnderTestingIsMock8 ==
    \A c \in Callers :
        (Done(c) /\ SpecIsDefault(c) /\ TestingActive) =>
            /\ Returned(c)
            /\ frame[c].outcome.value.kind = "MockEmbedding"
            /\ frame[c].outcome.value.dim = 8
            /\ Len(frame[c].calls) = 1
            /\ frame[c].calls[1].kind = "MockEmbedding"

C5_Witness ==
    /\ Returned(1)
    /\ SpecIsDefault(1)
    /\ TestingActive
    /\ env.openai = "missing"
    /\ ~env.huggingface
    /\ env.AZURE_OPENAI_API_KEY = "unset"

\* C6: None returns a mock provider of dimension 1 and prints the notice, in
\* every environment, under IS_TESTING and with every package missing too.
C6_NoneIsMock1WithNotice ==
    \A c \in Callers :
        (Done(c) /\ frame[c].spec.type = "none") =>
            /\ Returned(c)
            /\ frame[c].outcome.value.kind = "MockEmbedding"
            /\ frame[c].outcome.value.dim = 1
            /\ frame[c].notice

C6_Witness ==
    /\ Returned(1)
    /\ frame[1].spec.type = "none"
    /\ frame[1].notice
    /\ TestingActive
    /\ env.openai = "missing" /\ ~env.clip /\ ~env.huggingface /\ ~env.langchain /\ ~env.bridge

\* C7: a provider passed in comes back as the same object with only its
\* callback manager overwritten by the supplied (or default) handle, no
\* constructor runs, and resolving a returned provider again with the same
\* handle returns it with the same binding.
C7_ProviderPassThrough ==
    \A c \in Callers :
        (Done(c) /\ SpecIsProvider(c)) =>
            /\ Returned(c)
            /\ frame[c].outcome.value = [frame[c].spec EXCEPT !.cm = ExpectedHandle(c)]
            /\ frame[c].calls = <<>>
            /\ (frame[c].re /\ frame[c].callback_manager = frame[c].prevHandle) =>
                  frame[c].outcome.value = frame[c].prev

C7_Witness ==
    /\ Returned(1)
    /\ SpecIsProvider(1)
    /\ frame[1].re
    /\ frame[1].spec.id = "p1"
    /\ frame[1].callback_manager = frame[1].prevHandle
    /\ frame[1].callback_manager = "h2"
    /\ frame[1].outcome.value = frame[1].prev

\* C8: with the local-model package installed, "local" and "local:<name>"
\* return a local-model provider built with the folder <cache-root>/models;
\* the name is all that follows the first colon, and None for plain "local".
C8_LocalModelNameAndFolder ==
    \A c \in Callers :
        (Done(c) /\ SpecIsLocal(c) /\ env.huggingface) =>
            /\ Returned(c)
            /\ frame[c].outcome.value.kind = "HuggingFaceEmbedding"
            /\ frame[c].outcome.value.folder = CACHE_MODELS
            /\ CACHE_MODELS \in fs
            /\ frame[c].outcome.value.s =
                  IF Len(frame[c].spec.s) = Len(S_LOCAL)
                  THEN NoneName
                  ELSE SubSeq(frame[c].spec.s, Len(S_LOCAL) + 2, Len(frame[c].spec.s))

C8_Witness ==
    /\ Returned(1)
    /\ frame[1].spec = Str(S_LOCAL \o <<COLON, "a", COLON>>)
    /\ frame[1].outcome.value.s = <<"a", COLON>>

\* the constructor of the first dispatch step that matches the specifier
FirstMatch(c) ==
    IF SpecIsDefault(c) THEN (IF TestingActive THEN "MockEmbedding" ELSE "OpenAIEmbedding")
    ELSE IF SpecHasPrefix(c, S_CLIP) THEN "ClipEmbedding"
    ELSE IF SpecIsString(c) THEN "HuggingFaceEmbedding"
    ELSE IF SpecIsAdapter(c) THEN "LangchainEmbedding"
    ELSE IF frame[c].spec.type = "none" THEN "MockEmbedding"
    ELSE "no constructor"

\* C9: at every point of a call at most one constructor has been invoked,
\* and it is the one of the first dispatch step matching the specifier.
C9_FirstMatchWins ==
    \A c \in Callers :
        /\ Len(frame[c].calls) <= 1
        /\ Len(frame[c].calls) = 1 => frame[c].calls[1].kind = FirstMatch(c)

C9_Witness ==
    /\ Returned(1)
    /\ SpecHasPrefix(1, S_CLIP \o <<COLON>>)
    /\ Len(frame[1].calls) = 1
    /\ frame[1].calls[1].kind = "ClipEmbedding"

\* C10 as stated: with callers resolving "local" specifiers concurrently, no
\* call fails on a directory another caller made, the directory exists after
\* every such call, and a call failing with InvalidSpecifier makes none.
C10_CacheDirAfterEveryLocalCall ==
    \A c \in Callers :
        /\ (Done(c) /\ SpecIsLocal(c)) =>
              /\ frame[c].outcome.error # "FileExistsError"
              /\ CACHE_MODELS \in fs
        /\ InvalidSpecifier(c) => frame[c].created = {}

\* C10 amended: the directory exists after every such call that did not
\* fail with MissingDependency (the import precedes the creation).
C10_CacheDirCreationIsRaceFree ==
    \A c \in Callers :
        /\ (Done(c) /\ SpecIsLocal(c)) =>
              /\ frame[c].outcome.error # "FileExistsError"
              /\ frame[c].outcome.error # "ImportError" =>
                    (Returned(c) /\ CACHE_ROOT \in fs /\ CACHE_MODELS \in fs)
        /\ InvalidSpecifier(c) => frame[c].created = {}

\* a caller that found the parent missing and lost the race to create it
C10_Witness ==
    \E c \in Callers, d \in Callers :
        /\ c # d
        /\ Returned(c)
        /\ SpecIsLocal(c)
        /\ CACHE_ROOT \in frame[c].eexist
        /\ CACHE_ROOT \in frame[d].created

====
